---- MODULE Spec2Model ----
(***************************************************************************)
(* Model of build_playwright_mcp_demo.py: a command-line script that       *)
(* parses its arguments, builds an in-memory presentation (one title slide *)
(* followed by one content slide per entry of a fixed list), saves it and  *)
(* prints a confirmation line.                                             *)
(*                                                                         *)
(* A Python str is a TLA+ string.  A slide is a record holding its shape   *)
(* tree (a sequence of shapes, in insertion order) and its notes slides.   *)
(* All shapes have the same fields so that they can be compared; a picture *)
(* has no paragraphs and a text box has no image.                          *)
(***************************************************************************)
EXTENDS Integers, Sequences, FiniteSets, TLC

\* Number of invocations of the script that one behaviour follows.
MaxRuns == 2

(***************************************************************************)
(* Units of pptx.util.  Inches takes tenths of an inch (Inches(0.7) is     *)
(* InchesT(7)): 914400 EMU per inch.  Pt: 12700 EMU per point.             *)
(***************************************************************************)
InchesT(tenths) == tenths * 91440

Pt(n) == n * 12700

\* RGBColor(0, 0, 0)
Black == "000000"

(***************************************************************************)
(* The fixed list of slide specifications of build_prs.  A bullet item is  *)
(* either a str (Str) or a list of str (List); isinstance(item, str) is    *)
(* item.isstr.  The three non-ASCII characters of the texts are written   *)
(* in ASCII here (<->, -> and '); no operation looks inside a text.        *)
(***************************************************************************)
Str(t) == [isstr |-> TRUE, text |-> t, list |-> <<>>]

List(l) == [isstr |-> FALSE, text |-> "", list |-> l]

SlideSpec(t, b, n) == [title |-> t, bullets |-> b, notes |-> n]

slides ==
  << SlideSpec("Agenda", <<
        Str("What is Playwright?"),
        Str("What is MCP (Model Context Protocol)?"),
        Str("Why Playwright + MCP"),
        Str("Architecture"),
        Str("Components"),
        Str("Uses"),
        Str("Install steps"),
        Str("Execute steps (demo flow)"),
        Str("References") >>, "Set expectations and timing."),
     SlideSpec("What is Playwright?", <<
        Str("Open-source end-to-end testing framework by Microsoft"),
        Str("Automates Chromium, Firefox, WebKit across Windows, macOS, Linux, CI"),
        Str("Fast, reliable, headless or headed modes"),
        Str("Rich tooling: Codegen, Trace Viewer, HTML reports"),
        Str("Great for E2E, smoke, visual, and API-assisted flows") >>,
        "Emphasize cross-browser parity and dev tooling."),
     SlideSpec("What is MCP (Model Context Protocol)?", <<
        Str("Protocol to safely connect LLMs to external tools and data"),
        Str("Standardizes capabilities (tools/procedures, resources, prompts)"),
        Str("Decouples LLMs from vendor-specific plugins"),
        Str("Enables auditable, permissioned tool usage") >>,
        "MCP as a clean contract between LLMs and tools."),
     SlideSpec("Why Combine Playwright + MCP?", <<
        Str("Natural-language control of browsers via standardized tools"),
        Str("Automate tasks and verifications with LLM guidance"),
        Str("Reproduce flaky flows and triage with traces/logs"),
        Str("Fits CI/CD and guardrails; observability via Playwright artifacts") >>,
        "Bridge developer and AI operator workflows."),
     SlideSpec("Architecture", <<
        Str("LLM Client <-> MCP Client/Transport <-> Playwright MCP Server <-> Playwright Core <-> Target Web App"),
        Str("Optional: Secrets store, config, logging/telemetry, sandboxing") >>,
        "Highlight trust boundaries and policy points."),
     SlideSpec("Core Components", <<
        List(<<"MCP Client:", "Connects LLM to MCP servers",
               "Presents tools/resources to the model">>),
        List(<<"Playwright MCP Server:",
               "navigate, click, fill, waitFor, screenshot, extract, runTest",
               "Config: browser type, headless, storage state, timeouts">>),
        List(<<"Playwright Runtime:",
               "Browsers, isolation contexts, tracing, reports">>) >>,
        "Clarify responsibilities and config."),
     SlideSpec("Common Uses", <<
        Str("E2E and smoke runs via natural-language prompts"),
        Str("Repro/triage regressions with scripts and traces"),
        Str("Data extraction and validation from internal apps"),
        Str("Visual verifications and review screenshots"),
        Str("CI bots that verify 'happy path' before merge") >>,
        "Map to concrete workflows."),
     SlideSpec("Prerequisites", <<
        Str("Node.js 18+ and Git"),
        Str("macOS/Windows/Linux with browser deps"),
        Str("Optional: VS Code and npm/yarn/pnpm"),
        Str("MCP-capable client (e.g., Claude Desktop) for LLM control") >>,
        "Note proxies/sandbox considerations."),
     SlideSpec("Install: Playwright", <<
        Str("npm init -y"),
        Str("npm i -D @playwright/test"),
        Str("npx playwright install --with-deps"),
        Str("Optional: npx playwright test --ui; npx playwright codegen https://example.com") >>,
        "Verify browsers downloaded; run a sample test."),
     SlideSpec("Install: Playwright MCP Server (example)", <<
        Str("git clone <playwright-mcp-server-repo> && cd <repo>"),
        Str("npm i && npm run build"),
        Str("Configure .env: BROWSER, HEADLESS, TIMEOUTS, STORAGE_STATE"),
        Str("npm start (verify local run)") >>,
        "Replace with your team's server repo."),
     SlideSpec("Configure MCP Client", <<
        Str("Add server in client (e.g., Claude Desktop Tools/Servers)"),
        Str("Command: node dist/index.js; Working dir: server root"),
        Str("Env: HEADLESS=true, BROWSER=chromium, etc."),
        Str("Validate tools: playwright.navigate, playwright.click, playwright.screenshot") >>,
        "Dry run to list available procedures."),
     SlideSpec("Execute: LLM-Driven Demo", <<
        Str("Start server: npm start"),
        Str("Prompt: Open URL -> Click Sign In -> Fill creds -> Submit"),
        Str("Screenshot and confirm dashboard visible"),
        Str("Collect artifacts: screenshots, traces") >>,
        "Keep creds in secrets; show trace viewer."),
     SlideSpec("Execute: Playwright Test CLI (non-LLM)", <<
        Str("npx playwright test"),
        Str("npx playwright show-report"),
        Str("npx playwright show-trace trace.zip") >>,
        "Show parity with scripted flows."),
     SlideSpec("CI/CD Integration (Example)", <<
        Str("Use official Playwright GitHub Action"),
        Str("Cache browsers for speed"),
        Str("Upload HTML report and trace artifacts") >>,
        "Mention parallelization and flaky retry policy."),
     SlideSpec("Security & Governance", <<
        Str("Least privilege; domain allowlists"),
        Str("Redact secrets/PII; vault-backed env vars"),
        Str("Logging/telemetry with sensitive-data filtering"),
        Str("Sandbox/brokered access for production targets") >>,
        "Cover infosec expectations."),
     SlideSpec("Troubleshooting", <<
        Str("Install browsers: npx playwright install"),
        Str("CI sandbox/headless issues: disable sandbox or run headed locally"),
        Str("Selectors flaky: prefer data-testid and proper waits"),
        Str("MCP connection errors: check path, permissions, env vars"),
        Str("Trace empty: enable tracing around actions") >>,
        "Mini-FAQ for demos."),
     SlideSpec("References", <<
        Str("Playwright Docs: https://playwright.dev"),
        Str("Test Intro: https://playwright.dev/docs/test-intro"),
        Str("CLI: https://playwright.dev/docs/test-cli"),
        Str("CI Guides: https://playwright.dev/docs/ci"),
        Str("Trace Viewer: https://playwright.dev/docs/trace-viewer"),
        Str("MCP Spec: https://modelcontextprotocol.io"),
        Str("Claude + MCP Getting Started: https://docs.anthropic.com/claude/docs/mcp-get-started") >>,
        "Add your internal repo link.") >>

\* The subtitle literal that build_prs passes to add_title_slide.
SubtitleLine ==
  "Definition, Architecture, Components, Uses, Installation, Execution, References"

(***************************************************************************)
(* The presentation library, as far as the script uses it.                 *)
(***************************************************************************)
\* A paragraph of a fresh or cleared text frame: no text, level 0, no font.
EmptyParagraph == [text |-> "", level |-> 0, size |-> 0, bold |-> FALSE, color |-> ""]

\* Presentation(): the default template is 10in x 7.5in and has no slide.
Presentation == [slide_width |-> InchesT(100), slide_height |-> InchesT(75), slides |-> <<>>]

\* Faulty add_slide: the new slide is put at the front of the slide list.
add_slide_Front(p) ==
  [p EXCEPT !.slides = <<[slide_id |-> 256 + Len(p.slides), shapes |-> <<>>,
                          notes |-> <<>>]>> \o @]

\* prs.slides.add_slide(layout): a blank slide with the next free id,
\* appended at the end of the slide list.
add_slide(p) ==
  LET ids == {p.slides[k].slide_id : k \in 1..Len(p.slides)}
      next == IF ids = {} THEN 256
              ELSE 1 + CHOOSE m \in ids : \A n \in ids : n <= m
  IN  [p EXCEPT !.slides = Append(@, [slide_id |-> next, shapes |-> <<>>, notes |-> <<>>])]

\* slide.shapes.add_picture(image, left, top, width, height)
add_picture(sl, image, left, top, width, height) ==
  [sl EXCEPT !.shapes = Append(@, [kind |-> "picture", image |-> image,
        left |-> left, top |-> top, width |-> width, height |-> height,
        paragraphs |-> <<>>])]

\* slide.shapes.add_textbox(left, top, width, height): the new box holds one
\* empty paragraph.
add_textbox(sl, left, top, width, height) ==
  [sl EXCEPT !.shapes = Append(@, [kind |-> "textbox", image |-> "",
        left |-> left, top |-> top, width |-> width, height |-> height,
        paragraphs |-> <<EmptyParagraph>>])]

\* tf.clear(): all paragraphs but the first are removed, the first is emptied.
clear(tf) == <<[tf[1] EXCEPT !.text = ""]>>

\* slide.notes_slide: the notes slide of the slide, created on first access.
notes_slide(sl) ==
  IF sl.notes = <<>> THEN [sl EXCEPT !.notes = <<<<EmptyParagraph>>>>] ELSE sl

(***************************************************************************)
(* The helpers of the script.  Each takes the slide record and returns the *)
(* slide record after the call.                                            *)
(***************************************************************************)
\* Faulty add_bg_image: width and height are passed in the wrong order.
add_bg_image_Swapped(sl, image_path, p) ==
  add_picture(sl, image_path, 0, 0, p.slide_height, p.slide_width)

add_bg_image(sl, image_path, p) ==
  add_picture(sl, image_path, 0, 0, p.slide_width, p.slide_height)

\* The text frame tf of the text box the helper has just added is the
\* paragraphs field of the last shape.
SetLastFrame(sl, tf) == [sl EXCEPT !.shapes[Len(sl.shapes)].paragraphs = tf]

add_title(sl, title_text) ==
  LET tb == add_textbox(sl, InchesT(7), InchesT(6), InchesT(100), InchesT(12))
      tf == clear(tb.shapes[Len(tb.shapes)].paragraphs)
      p  == [tf[1] EXCEPT !.text = @ \o title_text, !.size = Pt(44),
                          !.bold = TRUE, !.color = Black]
  IN  SetLastFrame(tb, <<p>>)

add_subtitle(sl, subtitle_text) ==
  LET tb == add_textbox(sl, InchesT(7), InchesT(16), InchesT(100), InchesT(15))
      tf == clear(tb.shapes[Len(tb.shapes)].paragraphs)
      p  == [tf[1] EXCEPT !.text = subtitle_text, !.size = Pt(20), !.color = Black]
  IN  SetLastFrame(tb, <<p>>)

\* Faulty add_line: it never reuses the paragraph the cleared frame has.
add_line_Append(st, text, level) ==
  LET tf == Append(st.tf, EmptyParagraph)
  IN  [tf |-> [tf EXCEPT ![Len(tf)] = [@ EXCEPT !.text = text, !.level = level,
                                               !.size = Pt(22)]],
       first |-> FALSE]

\* add_line of add_bullets; st holds the text frame and the flag first.
add_line(st, text, level) ==
  LET tf  == IF st.first THEN st.tf ELSE Append(st.tf, EmptyParagraph)
      idx == IF st.first THEN 1 ELSE Len(tf)
  IN  [tf |-> [tf EXCEPT ![idx] = [@ EXCEPT !.text = text, !.level = level,
                                           !.size = Pt(22)]],
       first |-> FALSE]

\* Faulty loop over the sub-lines: it runs from the last to the first.
RECURSIVE add_sublines_Reversed(_, _)
add_sublines_Reversed(st, subs) ==
  IF subs = <<>> THEN st
  ELSE add_sublines_Reversed(add_line(st, subs[Len(subs)], 1),
                             SubSeq(subs, 1, Len(subs) - 1))

\* for sub in item[1:]: add_line(sub, 1)
RECURSIVE add_sublines(_, _)
add_sublines(st, subs) ==
  IF subs = <<>> THEN st
  ELSE add_sublines(add_line(st, Head(subs), 1), Tail(subs))

\* The body of the loop over the bullet items.
add_item(st, item) ==
  IF item.isstr THEN add_line(st, item.text, 0)
  ELSE IF Len(item.list) > 0
       THEN add_sublines(add_line(st, item.list[1], 0), Tail(item.list))
       ELSE st

\* for item in bullets
RECURSIVE add_items(_, _)
add_items(st, bullets) ==
  IF bullets = <<>> THEN st
  ELSE add_items(add_item(st, Head(bullets)), Tail(bullets))

add_bullets(sl, bullets) ==
  LET tb == add_textbox(sl, InchesT(7), InchesT(22), InchesT(100), InchesT(51))
      tf == clear(tb.shapes[Len(tb.shapes)].paragraphs)
      st == add_items([tf |-> tf, first |-> TRUE], bullets)
  IN  SetLastFrame(tb, st.tf)

add_notes(sl, notes_text) ==
  IF notes_text = "" THEN sl
  ELSE LET ns == notes_slide(sl)
           tf == clear(ns.notes[1])
       IN  [ns EXCEPT !.notes[1] = <<[tf[1] EXCEPT !.text = notes_text]>>]

\* "\n".join(lines)
RECURSIVE join(_)
join(lines) ==
  IF lines = <<>> THEN ""
  ELSE IF Len(lines) = 1 THEN lines[1]
  ELSE lines[1] \o "\n" \o join(Tail(lines))

\* Faulty subtitle_lines: presenter and organization are not tested.
subtitle_lines_Always(subtitle, presenter, org, when) ==
  <<subtitle, presenter, org, when>>

\* The list subtitle_lines that add_title_slide builds.
subtitle_lines(subtitle, presenter, org, when) ==
  LET l1 == <<subtitle>>
      l2 == IF presenter # "" THEN Append(l1, presenter) ELSE l1
      l3 == IF org # "" THEN Append(l2, org) ELSE l2
  IN  Append(l3, when)

(***************************************************************************)
(* str(date.today()): the ISO form YYYY-MM-DD of a date [y, m, d].         *)
(***************************************************************************)
Digit(n) == <<"0", "1", "2", "3", "4", "5", "6", "7", "8", "9">>[n + 1]

Pad2(n) == Digit((n \div 10) % 10) \o Digit(n % 10)

Pad4(n) == Pad2(n \div 100) \o Pad2(n % 100)

str_date(dt) == Pad4(dt.y) \o "-" \o Pad2(dt.m) \o "-" \o Pad2(dt.d)

(***************************************************************************)
(* The command line.  argv gives, for each option, <<>> when the option is *)
(* not on the command line and <<v>> when it is given with value v.        *)
(***************************************************************************)
Opts == {"template_image", "out", "title", "presenter", "org", "date"}

\* Faulty defaults: --date has no default value.
Defaults_NoDate ==
  [template_image |-> "", out |-> "Playwright-MCP-Demo.pptx",
   title |-> "Playwright MCP Demo", presenter |-> "Sheshashayan Papanna",
   org |-> "", date |-> ""]

\* The default= values of the add_argument calls; --template-image is
\* required and has none.
Defaults ==
  [template_image |-> "", out |-> "Playwright-MCP-Demo.pptx",
   title |-> "Playwright MCP Demo", presenter |-> "Sheshashayan Papanna",
   org |-> "", date |-> "07/11/2025"]

\* ap.parse_args(), for a command line that has the required option.
parse_args(av) == [o \in Opts |-> IF av[o] # <<>> THEN av[o][1] ELSE Defaults[o]]

\* The command lines the behaviours start from.
ArgvSet ==
  [template_image : {<<>>, <<"t.png">>},
   out            : {<<>>, <<"o.pptx">>},
   title          : {<<>>, <<"My Deck">>},
   presenter      : {<<>>, <<"">>, <<"Jane Doe">>},
   org            : {<<>>, <<"">>, <<"ACME">>},
   date           : {<<>>, <<"">>, <<"01/01/2030">>}]

\* The file system: the paths that open for reading, the paths that open
\* for writing.
ReadableSets == {{}, {"t.png"}}

WritableSets == {{}, {"o.pptx"}, {"o.pptx", "Playwright-MCP-Demo.pptx"}}

NoArgs == [o \in Opts |-> ""]

NoPresentation == [slide_width |-> 0, slide_height |-> 0, slides |-> <<>>]

VARIABLES
  argv,         \* the command line of the script
  fs_readable,  \* paths that can be opened for reading
  fs_writable,  \* paths that can be opened for writing
  today,        \* the date of the system clock
  run,          \* number of the current invocation, from 1
  last,         \* <<>>, or <<summary of the last successful invocation>>
  pc,           \* the statement the script is at
  args,         \* main: the parsed arguments
  prs,          \* build_prs: the presentation being built
  when,         \* add_title_slide: the parameter when
  slide,        \* add_title_slide / add_content_slide: index of the local slide
  idx,          \* build_prs: position of the for loop in slides
  written,      \* paths of the files this invocation has written, in order
  stdout,       \* lines this invocation has printed
  opens,        \* number of times this invocation has opened the image
  raised_in,    \* "" or the statement that raised the uncaught exception
  exit_code     \* exit status once pc = "exit"

vars == <<argv, fs_readable, fs_writable, today, run, last, pc, args, prs,
          when, slide, idx, written, stdout, opens, raised_in, exit_code>>

env == <<argv, fs_readable, fs_writable, today, run, last>>

Init ==
  /\ argv \in ArgvSet
  /\ fs_readable \in ReadableSets
  /\ fs_writable \in WritableSets
  /\ today = [y |-> 2026, m |-> 11, d |-> 6]
  /\ run = 1
  /\ last = <<>>
  /\ pc = "main"
  /\ args = NoArgs
  /\ prs = NoPresentation
  /\ when = ""
  /\ slide = 0
  /\ idx = 0
  /\ written = <<>>
  /\ stdout = <<>>
  /\ opens = 0
  /\ raised_in = ""
  /\ exit_code = 0

\* An exception nobody catches: the interpreter exits with status 1.
Raise(at) ==
  /\ pc' = "exit"
  /\ raised_in' = at
  /\ exit_code' = 1

\* main: the parser is built and the command line parsed.  Without the
\* required option argparse exits with status 2.
ParseArgs ==
  /\ pc = "main"
  /\ IF argv.template_image = <<>>
       THEN /\ pc' = "exit"
            /\ exit_code' = 2
            /\ raised_in' = "parse_args"
            /\ UNCHANGED args
       ELSE /\ args' = parse_args(argv)
            /\ pc' = "build_prs"
            /\ UNCHANGED <<raised_in, exit_code>>
  /\ UNCHANGED <<env, prs, when, slide, idx, written, stdout, opens>>

\* build_prs: prs = Presentation()
NewPresentation ==
  /\ pc = "build_prs"
  /\ prs' = Presentation
  /\ pc' = "title_slide"
  /\ UNCHANGED <<env, args, when, slide, idx, written, stdout, opens,
                 raised_in, exit_code>>

\* The call of add_title_slide (its arguments are evaluated) and its first
\* statement, which adds the blank slide.
TitleAddSlide ==
  /\ pc = "title_slide"
  /\ when' = IF args.date # "" THEN args.date ELSE str_date(today)
  /\ prs' = add_slide(prs)
  /\ slide' = Len(prs'.slides)
  /\ pc' = "title_bg"
  /\ UNCHANGED <<env, args, idx, written, stdout, opens, raised_in, exit_code>>

\* Faulty add_bg_image call: a failure to open the image is swallowed and
\* the slide is left without its picture.
BgImage_Swallow(nextpc) ==
  /\ opens' = opens + 1
  /\ prs' = IF args.template_image \in fs_readable
              THEN [prs EXCEPT !.slides[slide] =
                      add_picture(@, args.template_image, 0, 0,
                                  prs.slide_width, prs.slide_height)]
              ELSE prs
  /\ pc' = nextpc
  /\ UNCHANGED <<argv, fs_readable, fs_writable, today, run, last, args, when,
                 slide, idx, written, stdout, raised_in, exit_code>>

\* add_bg_image(slide, template_image, prs): add_picture opens the image
\* file and raises when it cannot.
BgImage(nextpc) ==
  /\ opens' = opens + 1
  /\ IF args.template_image \in fs_readable
       THEN /\ prs' = [prs EXCEPT !.slides[slide] =
                          add_bg_image(@, args.template_image, prs)]
            /\ pc' = nextpc
            /\ UNCHANGED <<raised_in, exit_code>>
       ELSE /\ Raise(pc)
            /\ UNCHANGED prs
  /\ UNCHANGED <<env, args, when, slide, idx, written, stdout>>

TitleBgImage ==
  /\ pc = "title_bg"
  /\ BgImage("title_title")

TitleTitle ==
  /\ pc = "title_title"
  /\ prs' = [prs EXCEPT !.slides[slide] = add_title(@, args.title)]
  /\ pc' = "title_subtitle"
  /\ UNCHANGED <<env, args, when, slide, idx, written, stdout, opens,
                 raised_in, exit_code>>

\* The rest of add_title_slide: the subtitle lines are collected, joined and
\* put in the subtitle box.  build_prs then defines slides and enters the loop.
TitleSubtitle ==
  /\ pc = "title_subtitle"
  /\ prs' = [prs EXCEPT !.slides[slide] =
       add_subtitle(@, join(subtitle_lines(SubtitleLine, args.presenter,
                                           args.org, when)))]
  /\ idx' = 1
  /\ pc' = "loop"
  /\ UNCHANGED <<env, args, when, slide, written, stdout, opens,
                 raised_in, exit_code>>

\* for title, bullets, notes in slides: the call of add_content_slide and
\* its first statement.
ContentAddSlide ==
  /\ pc = "loop"
  /\ idx <= Len(slides)
  /\ prs' = add_slide(prs)
  /\ slide' = Len(prs'.slides)
  /\ pc' = "content_bg"
  /\ UNCHANGED <<env, args, when, idx, written, stdout, opens, raised_in,
                 exit_code>>

ContentBgImage ==
  /\ pc = "content_bg"
  /\ BgImage("content_title")

ContentTitle ==
  /\ pc = "content_title"
  /\ prs' = [prs EXCEPT !.slides[slide] = add_title(@, slides[idx].title)]
  /\ pc' = "content_bullets"
  /\ UNCHANGED <<env, args, when, slide, idx, written, stdout, opens,
                 raised_in, exit_code>>

\* Faulty add_content_slide: the bullets go to the slide before the new one.
ContentBullets_Previous ==
  /\ pc = "content_bullets"
  /\ prs' = [prs EXCEPT !.slides[slide - 1] = add_bullets(@, slides[idx].bullets)]
  /\ pc' = "content_notes"
  /\ UNCHANGED <<argv, fs_readable, fs_writable, today, run, last, args, when,
                 slide, idx, written, stdout, opens, raised_in, exit_code>>

ContentBullets ==
  /\ pc = "content_bullets"
  /\ prs' = [prs EXCEPT !.slides[slide] = add_bullets(@, slides[idx].bullets)]
  /\ pc' = "content_notes"
  /\ UNCHANGED <<env, args, when, slide, idx, written, stdout, opens,
                 raised_in, exit_code>>

\* add_notes, the return of add_content_slide and the next round of the loop.
ContentNotes ==
  /\ pc = "content_notes"
  /\ prs' = [prs EXCEPT !.slides[slide] = add_notes(@, slides[idx].notes)]
  /\ idx' = idx + 1
  /\ pc' = "loop"
  /\ UNCHANGED <<env, args, when, slide, written, stdout, opens, raised_in,
                 exit_code>>

\* Faulty loop: it may stop before the last entry of slides.
ReturnPrs_Early ==
  /\ pc = "loop"
  /\ idx >= Len(slides)
  /\ pc' = "save"
  /\ UNCHANGED <<argv, fs_readable, fs_writable, today, run, last, args, prs,
                 when, slide, idx, written, stdout, opens, raised_in, exit_code>>

\* The loop is exhausted: return prs.
ReturnPrs ==
  /\ pc = "loop"
  /\ idx > Len(slides)
  /\ pc' = "save"
  /\ UNCHANGED <<env, args, prs, when, slide, idx, written, stdout, opens,
                 raised_in, exit_code>>

\* Faulty main: a failure of prs.save is ignored.
Save_Ignored ==
  /\ pc = "save"
  /\ written' = IF args.out \in fs_writable THEN Append(written, args.out)
                ELSE written
  /\ pc' = "print"
  /\ UNCHANGED <<argv, fs_readable, fs_writable, today, run, last, args, prs,
                 when, slide, idx, stdout, opens, raised_in, exit_code>>

\* prs.save(args.out): the file is written, or opening it raises.
Save ==
  /\ pc = "save"
  /\ IF args.out \in fs_writable
       THEN /\ written' = Append(written, args.out)
            /\ pc' = "print"
            /\ UNCHANGED <<raised_in, exit_code>>
       ELSE /\ Raise(pc)
            /\ UNCHANGED written
  /\ UNCHANGED <<env, args, prs, when, slide, idx, stdout, opens>>

\* print(f"Wrote {args.out}"), and main returns.
PrintWrote ==
  /\ pc = "print"
  /\ stdout' = Append(stdout, "Wrote " \o args.out)
  /\ pc' = "exit"
  /\ exit_code' = 0
  /\ UNCHANGED <<env, args, prs, when, slide, idx, written, opens, raised_in>>

(***************************************************************************)
(* What a finished invocation leaves for comparison with the next one: the *)
(* number of slides, the text of the first text box of every slide (its    *)
(* title) and the text of the second text box of the first slide (the      *)
(* subtitle).                                                              *)
(***************************************************************************)
TextBoxes(sl) == SelectSeq(sl.shapes, LAMBDA sh : sh.kind = "textbox")

TitleOf(sl) == TextBoxes(sl)[1].paragraphs[1].text

SubtitleOf(sl) == TextBoxes(sl)[2].paragraphs[1].text

Summary(p) ==
  [count    |-> Len(p.slides),
   titles   |-> [k \in 1..Len(p.slides) |-> TitleOf(p.slides[k])],
   subtitle |-> SubtitleOf(p.slides[1])]

\* The script is invoked again with the same command line, on the same day
\* or on the next one.
Rerun ==
  /\ pc = "exit"
  /\ run < MaxRuns
  /\ run' = run + 1
  /\ last' = IF exit_code = 0 THEN <<Summary(prs)>> ELSE last
  /\ today' \in {today, [today EXCEPT !.d = @ + 1]}
  /\ pc' = "main"
  /\ args' = NoArgs
  /\ prs' = NoPresentation
  /\ when' = ""
  /\ slide' = 0
  /\ idx' = 0
  /\ written' = <<>>
  /\ stdout' = <<>>
  /\ opens' = 0
  /\ raised_in' = ""
  /\ exit_code' = 0
  /\ UNCHANGED <<argv, fs_readable, fs_writable>>

Next ==
  \/ ParseArgs
  \/ NewPresentation
  \/ TitleAddSlide
  \/ TitleBgImage
  \/ TitleTitle
  \/ TitleSubtitle
  \/ ContentAddSlide
  \/ ContentBgImage
  \/ ContentTitle
  \/ ContentBullets
  \/ ContentNotes
  \/ ReturnPrs
  \/ Save
  \/ PrintWrote
  \/ Rerun

Spec == Init /\ [][Next]_vars

(***************************************************************************)
(* Vocabulary of the properties.                                           *)
(***************************************************************************)
\* build_prs has returned the document to main.
Built ==
  \/ pc \in {"save", "print"}
  \/ pc = "exit" /\ raised_in \in {"", "save"}

\* No statement of add_title_slide / add_content_slide is left to run on
\* slide k.
Complete(k) ==
  /\ k \in 1..Len(prs.slides)
  /\ \/ k < Len(prs.slides)
     \/ pc = "loop"
     \/ Built

Pictures(sl) == SelectSeq(sl.shapes, LAMBDA sh : sh.kind = "picture")

\* The text boxes of a slide by the place the helpers put them at.
BoxesAt(sl, top) ==
  SelectSeq(sl.shapes, LAMBDA sh : sh.kind = "textbox" /\ sh.top = top)

TitleBoxes(sl) == BoxesAt(sl, InchesT(6))

SubtitleBoxes(sl) == BoxesAt(sl, InchesT(16))

BodyBoxes(sl) == BoxesAt(sl, InchesT(22))

\* The subtitle text that shows the date line d after the lines that are
\* present.
SubtitleShowing(d) ==
  SubtitleLine
    \o (IF args.presenter = "" THEN "" ELSE "\n" \o args.presenter)
    \o (IF args.org = "" THEN "" ELSE "\n" \o args.org)
    \o "\n" \o d

\* Number of paragraphs a bullet item asks for: itself, plus its sub-items.
ItemSize(item) == IF item.isstr THEN 1 ELSE Len(item.list)

RECURSIVE SizeUpTo(_, _)
SizeUpTo(bullets, j) ==
  IF j = 0 THEN 0 ELSE SizeUpTo(bullets, j - 1) + ItemSize(bullets[j])

\* The depth-first flattening of a bullet list, as (text, level) pairs.
FlatItem(item) ==
  IF item.isstr THEN << <<item.text, 0>> >>
  ELSE [m \in 1..Len(item.list) |-> <<item.list[m], IF m = 1 THEN 0 ELSE 1>>]

RECURSIVE Flatten(_)
Flatten(bullets) ==
  IF bullets = <<>> THEN <<>>
  ELSE Flatten(SubSeq(bullets, 1, Len(bullets) - 1)) \o FlatItem(bullets[Len(bullets)])

\* The content slides that have their bullet box.
WithBody == {k \in 2..Len(prs.slides) : Len(BodyBoxes(prs.slides[k])) > 0}

BodyOf(k) == BodyBoxes(prs.slides[k])[1].paragraphs

(***************************************************************************)
(* C1.  Every run with a readable template image builds a document of      *)
(* exactly 18 slides: the title slide and one content slide for each of    *)
(* the 17 entries of slides.  Such a run raises nothing while it builds,   *)
(* and the document build_prs returns has 1 + 17 slides.                   *)
(***************************************************************************)
C1_SlideCount ==
  /\ Len(slides) = 17
  /\ Built => Len(prs.slides) = 18 /\ Len(prs.slides) = 1 + Len(slides)
  /\ (pc = "exit" /\ argv.template_image # <<>>
        /\ argv.template_image[1] \in fs_readable) => Built

C1_Witness ==
  /\ pc = "exit" /\ exit_code = 0
  /\ args.template_image \in fs_readable
  /\ Len(prs.slides) = 18

(***************************************************************************)
(* C2.  With a template image path that cannot be opened the run fails     *)
(* fast: the exception is raised by the background image of the title      *)
(* slide, on the first and only attempt to open the image; no later        *)
(* statement runs, prs.save is never reached, no file is written and       *)
(* nothing is printed.                                                     *)
(***************************************************************************)
C2_UnreadableFailsFast ==
  (argv.template_image # <<>> /\ argv.template_image[1] \notin fs_readable) =>
    /\ pc \in {"main", "build_prs", "title_slide", "title_bg", "exit"}
    /\ opens <= 1
    /\ written = <<>>
    /\ stdout = <<>>
    /\ pc = "exit" => /\ raised_in = "title_bg"
                      /\ exit_code = 1
                      /\ opens = 1
                      /\ Len(prs.slides) = 1
                      /\ prs.slides[1].shapes = <<>>

C2_Witness ==
  /\ pc = "exit"
  /\ raised_in = "title_bg"
  /\ args.template_image \notin fs_readable

(***************************************************************************)
(* C3.  Once the title slide is complete its subtitle box holds the fixed  *)
(* subtitle line, then the presenter if and only if it is non-empty, then  *)
(* the organization if and only if it is non-empty, then the date, each on *)
(* its own line and in this order.                                         *)
(***************************************************************************)
C3_SubtitleBlock ==
  Complete(1) =>
    /\ Len(SubtitleBoxes(prs.slides[1])) = 1
    /\ LET text == SubtitleBoxes(prs.slides[1])[1].paragraphs[1].text
           P == args.presenter
           O == args.org
       IN  /\ (P # "" /\ O # "") =>
                text = SubtitleLine \o "\n" \o P \o "\n" \o O \o "\n" \o when
           /\ (P # "" /\ O = "") =>
                text = SubtitleLine \o "\n" \o P \o "\n" \o when
           /\ (P = "" /\ O # "") =>
                text = SubtitleLine \o "\n" \o O \o "\n" \o when
           /\ (P = "" /\ O = "") =>
                text = SubtitleLine \o "\n" \o when

C3_Witness ==
  /\ Complete(1)
  /\ args.presenter = ""
  /\ args.org = "ACME"
  /\ SubtitleOf(prs.slides[1]) = SubtitleLine \o "\nACME\n" \o when

(***************************************************************************)
(* C4.  As claimed: when --date is not on the command line, the title      *)
(* slide shows the current date.                                           *)
(***************************************************************************)
C4_OmittedDateIsToday ==
  (Complete(1) /\ argv.date = <<>>) =>
    SubtitleOf(prs.slides[1]) = SubtitleShowing(str_date(today))

(***************************************************************************)
(* C4, amended.  When --date is not on the command line the title slide    *)
(* shows the fixed default "07/11/2025"; it shows the current date exactly *)
(* when the date string is empty, and the given date string otherwise.     *)
(***************************************************************************)
C4_OmittedDateIsDefault ==
  Complete(1) =>
    /\ argv.date = <<>> => SubtitleOf(prs.slides[1]) = SubtitleShowing("07/11/2025")
    /\ argv.date = <<"">> =>
         SubtitleOf(prs.slides[1]) = SubtitleShowing(str_date(today))
    /\ (argv.date # <<>> /\ argv.date # <<"">>) =>
         SubtitleOf(prs.slides[1]) = SubtitleShowing(argv.date[1])
    /\ SubtitleOf(prs.slides[1]) = SubtitleShowing(str_date(today))
         => argv.date = <<"">>

C4_Witness ==
  /\ Complete(1)
  /\ argv.date = <<>>
  /\ SubtitleOf(prs.slides[1]) = SubtitleShowing("07/11/2025")

(***************************************************************************)
(* C5.  The bullet box of every content slide has as many paragraphs as    *)
(* its bullet specification has top-level items plus sub-items, with no    *)
(* empty paragraph at either end; the paragraph of every top-level item    *)
(* or group heading has level 0 and every sub-item is one level below the  *)
(* heading of its group.                                                   *)
(***************************************************************************)
C5_ParagraphCountAndLevels ==
  \A k \in WithBody :
    LET bullets == slides[k - 1].bullets
        ps == BodyOf(k)
    IN  /\ Len(BodyBoxes(prs.slides[k])) = 1
        /\ Len(ps) = SizeUpTo(bullets, Len(bullets))
        /\ ps[1].text # ""
        /\ ps[Len(ps)].text # ""
        /\ \A j \in 1..Len(bullets) :
             LET head == SizeUpTo(bullets, j - 1) + 1
             IN  /\ ps[head].level = 0
                 /\ \A m \in 1..(ItemSize(bullets[j]) - 1) :
                      ps[head + m].level = ps[head].level + 1

C5_Witness ==
  /\ Built
  /\ WithBody = 2..18
  /\ Len(BodyOf(7)) = 8
  /\ BodyOf(7)[2].level = 1

(***************************************************************************)
(* C6.  The (text, level) pairs of the paragraphs of a bullet box, in      *)
(* order, are the depth-first flattening of the bullet list: a plain line  *)
(* gives one pair of level 0, a group gives its heading at level 0         *)
(* followed at once by its sub-lines at level 1 in their order.            *)
(***************************************************************************)
C6_FlatteningOrder ==
  \A k \in WithBody :
    [n \in 1..Len(BodyOf(k)) |-> <<BodyOf(k)[n].text, BodyOf(k)[n].level>>]
      = Flatten(slides[k - 1].bullets)

C6_Witness ==
  /\ pc = "content_notes"
  /\ idx = 6
  /\ BodyOf(7)[4].text = "Playwright MCP Server:"
  /\ BodyOf(7)[5].text = "navigate, click, fill, waitFor, screenshot, extract, runTest"
  /\ BodyOf(7)[5].level = 1

(***************************************************************************)
(* C7.  Every complete slide, and so every slide of the document that      *)
(* build_prs returns, carries a background picture at offset (0, 0) whose  *)
(* width and height are the slide width and height of the presentation.    *)
(***************************************************************************)
C7_BackgroundFillsSlide ==
  /\ \A k \in 1..Len(prs.slides) :
       Complete(k) =>
         /\ Len(Pictures(prs.slides[k])) >= 1
         /\ \A n \in 1..Len(Pictures(prs.slides[k])) :
              LET pic == Pictures(prs.slides[k])[n]
              IN  /\ pic.left = 0
                  /\ pic.top = 0
                  /\ pic.width = prs.slide_width
                  /\ pic.height = prs.slide_height
                  /\ pic.image = args.template_image
  /\ Built => \A k \in 1..18 : Complete(k)

C7_Witness ==
  /\ Built
  /\ Len(prs.slides) = 18
  /\ Pictures(prs.slides[18])[1].width = InchesT(100)
  /\ Pictures(prs.slides[18])[1].height = InchesT(75)

(***************************************************************************)
(* C8.  After every step, each complete content slide has exactly one      *)
(* background picture, at most one title box, at most one bullet box and   *)
(* at most one notes block; and no step changes a slide that was complete  *)
(* before it (a new invocation starts a new document).                     *)
(***************************************************************************)
ContentSlideShape ==
  \A k \in 2..Len(prs.slides) :
    Complete(k) =>
      /\ Len(Pictures(prs.slides[k])) = 1
      /\ Len(TitleBoxes(prs.slides[k])) <= 1
      /\ Len(BodyBoxes(prs.slides[k])) <= 1
      /\ Len(prs.slides[k].notes) <= 1

EarlierSlidesUntouched ==
  run' = run =>
    \A k \in 1..Len(prs.slides) :
      Complete(k) => /\ k <= Len(prs'.slides)
                     /\ prs'.slides[k] = prs.slides[k]

C8_ContentSlideInvariant ==
  [][ContentSlideShape' /\ EarlierSlidesUntouched]_vars

C8_Witness ==
  /\ pc = "content_notes"
  /\ idx = 3
  /\ Complete(3)
  /\ Len(prs.slides[3].notes) = 1
  /\ Len(BodyBoxes(prs.slides[4])) = 1

(***************************************************************************)
(* C9.  The slide list is append-only; the title slide stays at position   *)
(* 1; the content slides follow in the order of slides.                    *)
(***************************************************************************)
SlideIds(p) == [k \in 1..Len(p.slides) |-> p.slides[k].slide_id]

AppendOnlyStep ==
  run' = run =>
    \/ SlideIds(prs') = SlideIds(prs)
    \/ /\ Len(prs'.slides) = Len(prs.slides) + 1
       /\ SubSeq(SlideIds(prs'), 1, Len(prs.slides)) = SlideIds(prs)
       /\ \A k \in 1..Len(prs.slides) :
            prs.slides[k].slide_id # prs'.slides[Len(prs'.slides)].slide_id

TitleSlideFirst ==
  /\ \A k \in 1..Len(prs.slides) :
       Len(SubtitleBoxes(prs.slides[k])) > 0 <=> (k = 1 /\ Complete(1))
  /\ Complete(1) => TitleOf(prs.slides[1]) = args.title

ContentInOrder ==
  /\ \A k \in 2..Len(prs.slides) :
       Len(TitleBoxes(prs.slides[k])) > 0 =>
         TitleOf(prs.slides[k]) = slides[k - 1].title
  /\ Built => Len(prs.slides) = 18 /\ \A k \in 2..18 : Complete(k)

\* As claimed: with the same command line every run gives the same slide
\* count, titles and subtitle text.
SameAsLastRun ==
  (Built /\ last # <<>>) => Summary(prs) = last[1]

\* Amended: the subtitle text is the same when the date string is not empty.
SameAsLastRunGivenDate ==
  (Built /\ last # <<>>) =>
    /\ Summary(prs).count = last[1].count
    /\ Summary(prs).titles = last[1].titles
    /\ args.date # "" => Summary(prs).subtitle = last[1].subtitle

(***************************************************************************)
(* C9 as claimed: append-only slide list, title slide first, content       *)
(* slides in the order of slides, and for a fixed command line the same    *)
(* slide count, titles and subtitle text on every run.                     *)
(***************************************************************************)
C9_AppendOnlyDeterministic ==
  [][AppendOnlyStep /\ TitleSlideFirst' /\ ContentInOrder' /\ SameAsLastRun']_vars

(***************************************************************************)
(* C9, amended: append-only slide list, title slide first, content slides  *)
(* in the order of slides; for a fixed command line the slide count and    *)
(* the titles are the same on every run, and the subtitle text is the same *)
(* on every run provided the date string is not empty.                     *)
(***************************************************************************)
C9_AppendOnlyDeterministicGivenDate ==
  [][AppendOnlyStep /\ TitleSlideFirst' /\ ContentInOrder'
       /\ SameAsLastRunGivenDate']_vars

C9_Witness ==
  /\ Built
  /\ last # <<>>
  /\ today.d = 7
  /\ args.date = "01/01/2030"
  /\ Summary(prs) = last[1]

(***************************************************************************)
(* C10.  Nothing is written before prs.save: the only write is the one of  *)
(* main, to args.out, after all 18 slides are built; a successful run has  *)
(* written exactly that one file; the confirmation line is printed only    *)
(* after the write, and a run that has printed it has written the file.    *)
(***************************************************************************)
C10_SingleWriteThenPrint ==
  /\ pc \notin {"print", "exit"} => written = <<>> /\ stdout = <<>>
  /\ written # <<>> => /\ written = <<args.out>>
                       /\ Len(prs.slides) = 18
                       /\ raised_in = ""
  /\ pc = "print" => written = <<args.out>> /\ stdout = <<>>
  /\ stdout # <<>> => /\ stdout = <<"Wrote " \o args.out>>
                      /\ written = <<args.out>>
                      /\ pc = "exit"
  /\ (pc = "exit" /\ exit_code = 0) =>
        /\ written = <<args.out>>
        /\ stdout = <<"Wrote " \o args.out>>

C10_Witness ==
  /\ pc = "exit"
  /\ exit_code = 0
  /\ written = <<"o.pptx">>
  /\ stdout = <<"Wrote o.pptx">>

====
